---------------------------- MODULE Spec2Model ----------------------------
(***************************************************************************)
(* Model of the OASK server (src/server/server.py) and of the context      *)
(* budget manager of the model runner (src/server/unified_model_runner.py).*)
(*                                                                         *)
(* Spec     : the /ask and /stop handlers, the worker subprocess, the      *)
(*            hand-off files and the chat store.                           *)
(* SpecTok  : TokenManager.optimize_for_context / _trim_conversation as    *)
(*            pure functions over bounded conversations.                   *)
(* SpecHandOff : pickle.dump of the messages, pickle.load in the worker.    *)
(* SpecStore: one /ask with /stop and its worker, and the endpoints that   *)
(*            write the store and the working directory during its wait.   *)
(*                                                                         *)
(* Scheduling: every inbound request runs on its own task and the tasks    *)
(* interleave at every access to shared state (the global                  *)
(* current_process, processing_lock, the files, chats.json).  This is the  *)
(* scheduling the code is written for (threading.Lock, "Thread-safe        *)
(* processing state management", server.py:242-245).  A single event loop  *)
(* running the blocking handlers one after the other produces a subset of  *)
(* these behaviours.                                                       *)
(***************************************************************************)
EXTENDS Integers, Sequences, FiniteSets, TLC

\* ------------------------------------------------------------------ bounds
\* number of /ask requests issued in one behaviour
NumReq == 2

Req == 1..NumReq

\* most messages before the latest user message in a conversation
MaxPrior == 4
\* what the tokenizer (an external component) counts for the three texts that
\* messages are made of, and what the chat template adds per message and for
\* the generation prompt
ShortTokens == 100
LongTokens == 10600
HugeTokens == 31600
TurnOverhead == 4
PromptOverhead == 3

\* ------------------------------------------------------- program constants
\* current_process = None (server.py:244)
None == 0
\* returncode of a process ended by terminate() (SIGTERM); kill() gives -9,
\* which every reader of returncode treats the same way (returncode < 0)
RcTerminated == 0 - 15
\* returncode of a worker that died of a signal on its own (out of memory)
RcCrashed == 0 - 9
\* sys.exit(1) of the worker (unified_model_runner.py:1657)
RcFailure == 1
\* normal interpreter exit of the worker
RcSuccess == 0
\* value of returncode before the process has been reaped (Popen.returncode)
NoRc == 99

\* TokenManager.__init__ (unified_model_runner.py:913-915)
MAX_CONTEXT_TOKENS == 32000
SAFETY_BUFFER == 100
EFFECTIVE_CONTEXT == MAX_CONTEXT_TOKENS - SAFETY_BUFFER
\* the floor of optimize_for_context (unified_model_runner.py:1030, 1033)
MinOutputTokens == 512
\* max_new_tokens of the five hardware profiles (unified_model_runner.py:762-804),
\* the values _generate_response passes as target_output_tokens (1452)
MaxNewTokens == {4000, 6000, 8000, 12000, 16000}

\* handler of /stop as a lock holder
StopTask == 0 - 1

\* chat ids and turns are numbers: a stored chat k has id -k and one turn -k;
\* the chat created by request r (id = its timestamp, server.py:658) has id r,
\* and the turn appended by request r is r; name is the "name" key that
\* rename_chat sets, "" while the chat has none
NoChat == 0
StoredChats == <<[id |-> 0 - 1, conv |-> <<0 - 1>>, name |-> ""],
                 [id |-> 0 - 2, conv |-> <<0 - 2>>, name |-> ""]>>
\* the chat_id form field of request r: the first request continues the stored
\* chat -2 (second in the list), every other request starts a new chat
ChatIdOf(r) == IF r = 1 THEN 0 - 2 ELSE NoChat

VARIABLES
    \* ---- server.py globals
    current_process,   \* server.py:244, None or the worker (named by its request)
    processing_lock,   \* server.py:245, None, a request id, or StopTask
    chatsFile,         \* contents of chats.json (CHATS_FILE)
    messages_file,     \* [Req -> BOOLEAN] temp_messages_<id>.pkl exists
    output_file,       \* [Req -> {"none","success","failure"}] temp_output_<id>.pkl
    \* ---- worker subprocesses (unified_model_runner.py main), one per request
    wstage,            \* "unborn","init","loaded","failing","wrote","wrote_err","exited"
    returncode,        \* Popen.returncode
    killedBy,          \* history: "none", "stop" or "ask" (who terminated it)
    atKill,            \* history: position of its request and output file when terminated
    sawAlive,          \* history: the live registered worker a request met at 419
    wroteOutput,       \* history: the worker has dumped a payload to its output file
    \* ---- /ask handler locals
    pc,                \* position of each /ask handler
    chats,             \* local list loaded at server.py:433
    waitOn,            \* Popen object the handler's wait()/communicate() is bound to
    pending,           \* value of a return statement executed inside try/finally
    ret,               \* what the handler returned ("none" while running)
    \* ---- /stop handler
    stopPc,            \* "idle", "kill" (terminated a worker), "noop"; lock held unless idle
    \* ---- TokenManager (SpecTok)
    conversation,          \* the list of messages given to optimize_for_context
    target_output_tokens,  \* its second argument
    template_ok,           \* FALSE: tokenizer.apply_chat_template raises
    optimized,             \* its result, once it has run
    \* ---- GemmaModelRunner._generate_response (SpecTok)
    genPc,                 \* "optimize", "template", "retry", "generate", "raised"
    inputs,                \* the conversation the processor has templated (positions)
    actual_output_tokens,  \* the output budget, max_new_tokens of generate()
    templateFailures,      \* history: how often processor.apply_chat_template raised
    \* ---- the hand-off of the messages (SpecHandOff)
    messages,              \* the list built by /ask (server.py:461-532)
    pkl,                   \* the pickle stream in temp_messages_<id>.pkl, <<>> before
    loaded                 \* the list the worker got from pickle.load

srvVars == <<current_process, processing_lock, chatsFile, messages_file, output_file,
             wstage, returncode, killedBy, atKill, sawAlive, wroteOutput, pc, chats, waitOn,
             pending, ret, stopPc>>
pklVars == <<messages, pkl, loaded>>
tokVars == <<conversation, target_output_tokens, template_ok, optimized,
             genPc, inputs, actual_output_tokens, templateFailures, pklVars>>
vars == <<srvVars, tokVars>>

\* ------------------------------------------------------------ server: Init
TokIdle ==
    /\ conversation = <<>>
    /\ target_output_tokens = 0
    /\ template_ok = TRUE
    /\ optimized = [done |-> FALSE, conv |-> <<>>, granted |-> 0]
    /\ genPc = "optimize"
    /\ inputs = <<>>
    /\ actual_output_tokens = 0
    /\ templateFailures = 0

SrvInit ==
    /\ current_process = None
    /\ processing_lock = None
    /\ chatsFile = StoredChats
    /\ messages_file = [r \in Req |-> FALSE]
    /\ output_file = [r \in Req |-> "none"]
    /\ wstage = [r \in Req |-> "unborn"]
    /\ returncode = [r \in Req |-> NoRc]
    /\ killedBy = [r \in Req |-> "none"]
    /\ atKill = [r \in Req |-> [pc |-> "none", output |-> "none"]]
    /\ sawAlive = [r \in Req |-> None]
    /\ wroteOutput = [r \in Req |-> FALSE]
    /\ pc = [r \in Req |-> "idle"]
    /\ chats = [r \in Req |-> <<>>]
    /\ waitOn = [r \in Req |-> None]
    /\ pending = [r \in Req |-> "none"]
    /\ ret = [r \in Req |-> "none"]
    /\ stopPc = "idle"

\* values that pickle handles, tagged with their Python type: the payload v of
\* a str, bytes or image is a string, of a list the sequence of its items, of
\* a dict the sequence of its <<key, value>> pairs in insertion order
Str(x) == [k |-> "str", v |-> x]
Bytes(x) == [k |-> "bytes", v |-> x]
Img(x) == [k |-> "image", v |-> x]
List(items) == [k |-> "list", v |-> items]
Dict(pairs) == [k |-> "dict", v |-> pairs]
NotLoaded == [k |-> "unset", v |-> ""]

PklIdle ==
    /\ messages = List(<<>>)
    /\ pkl = <<>>
    /\ loaded = NotLoaded

Init == SrvInit /\ TokIdle /\ PklIdle

\* --------------------------------------------------------- server: helpers
\* Popen.poll() is None
Alive(w) == wstage[w] \in {"init", "loaded", "failing", "wrote", "wrote_err"}

\* terminate(); wait(timeout); on timeout kill(); wait()
Terminate(w, who) ==
    /\ wstage' = [wstage EXCEPT ![w] = "exited"]
    /\ returncode' = [returncode EXCEPT ![w] = RcTerminated]
    /\ killedBy' = [killedBy EXCEPT ![w] = who]
    /\ atKill' = [atKill EXCEPT ![w] = [pc |-> pc[w], output |-> output_file[w]]]

\* 627-628: except Exception as e: return {"error": f"Process error: ..."}
InnerExcept == "process_error"

\* mutant: the outer handler does not catch the exception
OuterExcept_Unhandled == "unhandled"

\* 721-723: except Exception as e: return {"error": f"Server error: ..."}
OuterExcept == "server_error"

workerVars == <<wstage, returncode, killedBy, atKill>>
fileVars == <<messages_file, output_file>>
stopVars == <<stopPc>>
localVars == <<chats, waitOn, pending, ret>>
histVars == <<sawAlive, wroteOutput>>

Goto(r, label) == pc' = [pc EXCEPT ![r] = label]

\* the handler returns value: its locals go out of scope
Return(r, value) ==
    /\ ret' = [ret EXCEPT ![r] = value]
    /\ pc' = [pc EXCEPT ![r] = "done"]
    /\ chats' = [chats EXCEPT ![r] = <<>>]
    /\ waitOn' = [waitOn EXCEPT ![r] = None]
    /\ pending' = [pending EXCEPT ![r] = "none"]

\* mutant: the updated chat is put at the front and its old entry stays
PersistTurn_KeepOldEntry(list, id, turn) ==
    LET found == \E i \in 1..Len(list) : list[i].id = id
        first == CHOOSE i \in 1..Len(list) :
                     /\ list[i].id = id
                     /\ \A j \in 1..(i - 1) : list[j].id # id
        entry == IF found
                 THEN [list[first] EXCEPT !.conv = Append(@, turn)]
                 ELSE [id |-> id, conv |-> <<turn>>, name |-> ""]
    IN <<entry>> \o list

\* the chat list after appending turn to chat id and moving it to the front
\* (server.py:656-700); a chat id that is not in the list starts a new chat
PersistTurn(list, id, turn) ==
    LET found == \E i \in 1..Len(list) : list[i].id = id
        first == CHOOSE i \in 1..Len(list) :
                     /\ list[i].id = id
                     /\ \A j \in 1..(i - 1) : list[j].id # id
        entry == IF found
                 THEN [list[first] EXCEPT !.conv = Append(@, turn)]
                 ELSE [id |-> id, conv |-> <<turn>>, name |-> ""]
        rest == SelectSeq(list, LAMBDA c : c.id # id)
    IN <<entry>> \o rest

\* --------------------------------------------------------- /ask, server.py
\* mutant: admission takes the lock but leaves the registered worker running
AskAdmitKill_NoKill(r) ==
    /\ pc[r] = "idle"
    /\ processing_lock = None
    /\ processing_lock' = r
    /\ sawAlive' = [sawAlive EXCEPT ![r] =
                        IF current_process # None /\ Alive(current_process)
                        THEN current_process ELSE None]
    /\ Goto(r, "admit")
    /\ UNCHANGED <<current_process, chatsFile, fileVars, workerVars, chats, waitOn,
                   pending, ret, stopVars, wroteOutput, tokVars>>

\* 417-428: take the lock and kill the registered worker if it still runs
AskAdmitKill(r) ==
    /\ pc[r] = "idle"
    /\ processing_lock = None
    /\ processing_lock' = r
    /\ sawAlive' = [sawAlive EXCEPT ![r] =
                        IF current_process # None /\ Alive(current_process)
                        THEN current_process ELSE None]
    /\ IF current_process # None /\ Alive(current_process)
       THEN Terminate(current_process, "ask")
       ELSE UNCHANGED workerVars
    /\ Goto(r, "admit")
    /\ UNCHANGED <<current_process, chatsFile, fileVars, chats, waitOn, pending, ret,
                   stopVars, wroteOutput, tokVars>>

\* 429: current_process = None, then the lock is released
AskAdmitClear(r) ==
    /\ pc[r] = "admit"
    /\ current_process' = None
    /\ processing_lock' = None
    /\ Goto(r, "load")
    /\ UNCHANGED <<chatsFile, fileVars, workerVars, localVars, stopVars, histVars, tokVars>>

\* 433: chats = load_chats(); 538-544: pickle.dump(messages) to messages_file
AskLoadAndWrite(r) ==
    /\ pc[r] = "load"
    /\ chats' = [chats EXCEPT ![r] = chatsFile]
    /\ messages_file' = [messages_file EXCEPT ![r] = TRUE]
    /\ Goto(r, "spawn")
    /\ UNCHANGED <<current_process, processing_lock, chatsFile, output_file, workerVars,
                   waitOn, pending, ret, stopVars, histVars, tokVars>>

\* mutant: the lock taken for the spawn is kept during the wait
AskSpawn_HoldLock(r) ==
    /\ pc[r] = "spawn"
    /\ processing_lock = None
    /\ processing_lock' = r
    /\ current_process' = r
    /\ wstage' = [wstage EXCEPT ![r] = "init"]
    /\ Goto(r, "wait_eval")
    /\ UNCHANGED <<chatsFile, fileVars, returncode, killedBy, atKill, localVars,
                   stopVars, histVars, tokVars>>

\* 557-560: with processing_lock: current_process = subprocess.Popen(...)
AskSpawn(r) ==
    /\ pc[r] = "spawn"
    /\ processing_lock = None
    /\ current_process' = r
    /\ wstage' = [wstage EXCEPT ![r] = "init"]
    /\ Goto(r, "wait_eval")
    /\ UNCHANGED <<processing_lock, chatsFile, fileVars, returncode, killedBy, atKill, localVars,
                   stopVars, histVars, tokVars>>

\* mutant: the failed spawn empties the slot
AskSpawnFail_ClearsSlot(r) ==
    /\ pc[r] = "spawn"
    /\ processing_lock = None
    /\ current_process' = None
    /\ Return(r, OuterExcept)
    /\ UNCHANGED <<processing_lock, chatsFile, fileVars, workerVars, stopVars, histVars,
                   tokVars>>

\* 557-560 with Popen raising OSError: the lock is released by the with
\* statement and the exception is caught at 721-723
AskSpawnFail(r) ==
    /\ pc[r] = "spawn"
    /\ processing_lock = None
    /\ Return(r, OuterExcept)
    /\ UNCHANGED <<current_process, processing_lock, chatsFile, fileVars, workerVars,
                   stopVars, histVars, tokVars>>

\* an attribute access on the global current_process outside the lock:
\* AttributeError when it is None, caught at 627-628; the finally block runs next
ReadGlobal(r, next) ==
    IF current_process = None
    THEN /\ pending' = [pending EXCEPT ![r] = InnerExcept]
         /\ Goto(r, "cleanup")
         /\ UNCHANGED waitOn
    ELSE /\ waitOn' = [waitOn EXCEPT ![r] = current_process]
         /\ Goto(r, next)
         /\ UNCHANGED pending

\* 571: current_process.wait() binds the method to whatever the global holds
AskWaitEval(r) ==
    /\ pc[r] = "wait_eval"
    /\ ReadGlobal(r, "waiting")
    /\ UNCHANGED <<current_process, processing_lock, chatsFile, fileVars, workerVars,
                   chats, ret, stopVars, histVars, tokVars>>

\* 571: wait() returns once that process has exited
AskWaitReturn(r) ==
    /\ pc[r] = "waiting"
    /\ ~Alive(waitOn[r])
    /\ Goto(r, "read_rc")
    /\ UNCHANGED <<current_process, processing_lock, chatsFile, fileVars, workerVars,
                   localVars, stopVars, histVars, tokVars>>

\* 572: current_process.returncode (printed only)
AskReadRc(r) ==
    /\ pc[r] = "read_rc"
    /\ ReadGlobal(r, "comm_eval")
    /\ UNCHANGED <<current_process, processing_lock, chatsFile, fileVars, workerVars,
                   chats, ret, stopVars, histVars, tokVars>>

\* 575: current_process.communicate() binds to the global once more
AskCommEval(r) ==
    /\ pc[r] = "comm_eval"
    /\ ReadGlobal(r, "comm_wait")
    /\ UNCHANGED <<current_process, processing_lock, chatsFile, fileVars, workerVars,
                   chats, ret, stopVars, histVars, tokVars>>

\* 575: communicate() returns at end of file of the pipes, when the process exits
AskCommReturn(r) ==
    /\ pc[r] = "comm_wait"
    /\ ~Alive(waitOn[r])
    /\ Goto(r, "check_output")
    /\ UNCHANGED <<current_process, processing_lock, chatsFile, fileVars, workerVars,
                   localVars, stopVars, histVars, tokVars>>

\* 581-625: the value returned inside the try block, "none" when the reply is
\* loaded and the handler goes on after the finally block
OutputOutcome(r) ==
    CASE output_file[r] = "none"    -> "no_output"
      [] output_file[r] = "failure" -> "model_error"
      [] output_file[r] = "success" -> "none"

\* the chat a request appends its turn to: the chat_id form field, or a new
\* id made of the timestamp (658)
ChatOf(r) == IF ChatIdOf(r) # NoChat THEN ChatIdOf(r) ELSE r

\* mutant: the turn is saved before the output file is looked at
AskCheckOutput_SaveFirst(r) ==
    /\ pc[r] = "check_output"
    /\ chatsFile' = PersistTurn(chats[r], ChatOf(r), r)
    /\ pending' = [pending EXCEPT ![r] = OutputOutcome(r)]
    /\ Goto(r, "cleanup")
    /\ UNCHANGED <<current_process, processing_lock, fileVars, workerVars,
                   chats, waitOn, ret, stopVars, histVars, tokVars>>

AskCheckOutput(r) ==
    /\ pc[r] = "check_output"
    /\ pending' = [pending EXCEPT ![r] = OutputOutcome(r)]
    /\ Goto(r, "cleanup")
    /\ UNCHANGED <<current_process, processing_lock, chatsFile, fileVars, workerVars,
                   chats, waitOn, ret, stopVars, histVars, tokVars>>

\* 629-637: finally: remove messages_file and output_file when they exist
AskCleanupFiles(r) ==
    /\ pc[r] = "cleanup"
    /\ messages_file' = [messages_file EXCEPT ![r] = FALSE]
    /\ output_file' = [output_file EXCEPT ![r] = "none"]
    /\ Goto(r, "clear")
    /\ UNCHANGED <<current_process, processing_lock, chatsFile, workerVars, localVars,
                   stopVars, histVars, tokVars>>

\* mutant: the finally block leaves the process reference in place
AskClear_NoClear(r) ==
    /\ pc[r] = "clear"
    /\ processing_lock = None
    /\ IF pending[r] # "none"
       THEN Return(r, pending[r])
       ELSE /\ Goto(r, "check_stopped")
            /\ waitOn' = [waitOn EXCEPT ![r] = None]
            /\ UNCHANGED <<chats, pending, ret>>
    /\ UNCHANGED <<current_process, processing_lock, chatsFile, fileVars, workerVars,
                   stopVars, histVars, tokVars>>

\* 639-641: with processing_lock: current_process = None; then the pending
\* return of the try block takes effect, or control reaches line 643
AskClear(r) ==
    /\ pc[r] = "clear"
    /\ processing_lock = None
    /\ current_process' = None
    /\ IF pending[r] # "none"
       THEN Return(r, pending[r])
       ELSE /\ Goto(r, "check_stopped")
            /\ waitOn' = [waitOn EXCEPT ![r] = None]
            /\ UNCHANGED <<chats, pending, ret>>
    /\ UNCHANGED <<processing_lock, chatsFile, fileVars, workerVars, stopVars, histVars, tokVars>>

\* 643-645: if current_process and current_process.returncode < 0
\* (None < 0 raises TypeError while the registered process still runs)
StoppedOutcome ==
    CASE current_process = None               -> "none"
      [] returncode[current_process] = NoRc   -> OuterExcept
      [] returncode[current_process] < 0      -> "stopped"
      [] OTHER                                -> "none"

AskCheckStopped(r) ==
    /\ pc[r] = "check_stopped"
    /\ IF StoppedOutcome = "none"
       THEN /\ Goto(r, "persist")
            /\ UNCHANGED localVars
       ELSE Return(r, StoppedOutcome)
    /\ UNCHANGED <<current_process, processing_lock, chatsFile, fileVars, workerVars,
                   stopVars, histVars, tokVars>>

\* 647-719: append the turn to the list loaded at 433, save it, return the reply
AskPersist(r) ==
    /\ pc[r] = "persist"
    /\ chatsFile' = PersistTurn(chats[r], ChatOf(r), r)
    /\ Return(r, "reply")
    /\ UNCHANGED <<current_process, processing_lock, fileVars, workerVars, stopVars,
                   histVars, tokVars>>

\* -------------------------------------------------------- /stop, server.py
\* 353-363: take the lock; terminate the registered worker if it still runs
StopEnter ==
    /\ stopPc = "idle"
    /\ processing_lock = None
    /\ processing_lock' = StopTask
    /\ IF current_process # None /\ Alive(current_process)
       THEN /\ Terminate(current_process, "stop")
            /\ stopPc' = "kill"
       ELSE /\ stopPc' = "noop"
            /\ UNCHANGED workerVars
    /\ UNCHANGED <<current_process, chatsFile, fileVars, pc, localVars, histVars, tokVars>>

\* mutant: the finally clause clears the slot whether or not a worker was killed
StopExit_AlwaysClear ==
    /\ stopPc # "idle"
    /\ current_process' = None
    /\ processing_lock' = None
    /\ stopPc' = "idle"
    /\ UNCHANGED <<chatsFile, fileVars, workerVars, pc, localVars, histVars, tokVars>>

\* mutant: the finally clause is left out
StopExit_NoClear ==
    /\ stopPc # "idle"
    /\ processing_lock' = None
    /\ stopPc' = "idle"
    /\ UNCHANGED <<current_process, chatsFile, fileVars, workerVars, pc, localVars,
                   histVars, tokVars>>

\* 367-369: finally: current_process = None (inside the if), release, return
StopExit ==
    /\ stopPc # "idle"
    /\ current_process' = IF stopPc = "kill" THEN None ELSE current_process
    /\ processing_lock' = None
    /\ stopPc' = "idle"
    /\ UNCHANGED <<chatsFile, fileVars, workerVars, pc, localVars, histVars, tokVars>>

\* ------------------------------------- worker, unified_model_runner.py main
\* 1620-1627: initialize the runner, then load the messages file; a missing
\* file or a failed initialization raises into the except block of main
WorkerLoad(w) ==
    /\ wstage[w] = "init"
    /\ \E ok \in {messages_file[w], FALSE} :
           wstage' = [wstage EXCEPT ![w] = IF ok THEN "loaded" ELSE "failing"]
    /\ UNCHANGED <<current_process, processing_lock, chatsFile, fileVars, returncode,
                   killedBy, atKill, pc, localVars, stopVars, histVars, tokVars>>

\* 1629-1638: process_messages returns a success or a failure payload, which is
\* dumped to the output file; 1643-1653: the except block dumps an error payload
WorkerWrite(w) ==
    /\ \/ /\ wstage[w] = "loaded"
          /\ \E payload \in {"success", "failure"} :
                 output_file' = [output_file EXCEPT ![w] = payload]
          /\ wstage' = [wstage EXCEPT ![w] = "wrote"]
       \/ /\ wstage[w] = "failing"
          /\ output_file' = [output_file EXCEPT ![w] = "failure"]
          /\ wstage' = [wstage EXCEPT ![w] = "wrote_err"]
    /\ wroteOutput' = [wroteOutput EXCEPT ![w] = TRUE]
    /\ UNCHANGED <<current_process, processing_lock, chatsFile, messages_file, returncode,
                   killedBy, atKill, pc, localVars, stopVars, sawAlive, tokVars>>

\* end of main: exit status 0, or sys.exit(1) at 1657
WorkerExit(w) ==
    /\ wstage[w] \in {"wrote", "wrote_err"}
    /\ returncode' = [returncode EXCEPT ![w] =
                          IF wstage[w] = "wrote" THEN RcSuccess ELSE RcFailure]
    /\ wstage' = [wstage EXCEPT ![w] = "exited"]
    /\ UNCHANGED <<current_process, processing_lock, chatsFile, fileVars, killedBy, atKill, pc,
                   localVars, stopVars, histVars, tokVars>>

\* the process dies without an output file: 1654-1657 when the error payload
\* cannot be written either, or a signal from the operating system
WorkerCrash(w) ==
    /\ wstage[w] \in {"init", "loaded", "failing"}
    /\ returncode' = [returncode EXCEPT ![w] =
                          IF wstage[w] = "failing" THEN RcFailure ELSE RcCrashed]
    /\ wstage' = [wstage EXCEPT ![w] = "exited"]
    /\ UNCHANGED <<current_process, processing_lock, chatsFile, fileVars, killedBy, atKill, pc,
                   localVars, stopVars, histVars, tokVars>>

\* ------------------------------------------------------------ server: Next
Next ==
    \/ \E r \in Req : AskAdmitKill(r)
    \/ \E r \in Req : AskAdmitClear(r)
    \/ \E r \in Req : AskLoadAndWrite(r)
    \/ \E r \in Req : AskSpawn(r)
    \/ \E r \in Req : AskSpawnFail(r)
    \/ \E r \in Req : AskWaitEval(r)
    \/ \E r \in Req : AskWaitReturn(r)
    \/ \E r \in Req : AskReadRc(r)
    \/ \E r \in Req : AskCommEval(r)
    \/ \E r \in Req : AskCommReturn(r)
    \/ \E r \in Req : AskCheckOutput(r)
    \/ \E r \in Req : AskCleanupFiles(r)
    \/ \E r \in Req : AskClear(r)
    \/ \E r \in Req : AskCheckStopped(r)
    \/ \E r \in Req : AskPersist(r)
    \/ StopEnter
    \/ StopExit
    \/ \E w \in Req : WorkerLoad(w)
    \/ \E w \in Req : WorkerWrite(w)
    \/ \E w \in Req : WorkerExit(w)
    \/ \E w \in Req : WorkerCrash(w)

Spec == Init /\ [][Next]_vars

\* ------------------------------------- the other endpoints that write the
\* store or the working directory, server.py
\* the chats a client deletes and renames while requests are in flight, and
\* the name it gives
DeletedChats == {StoredChats[1].id}
RenamedChats == {StoredChats[2].id}
NewNames == {"renamed"}

\* 738-743: load the list, drop the chat, save the list
DeleteChat(chat_id) ==
    /\ chatsFile' = SelectSeq(chatsFile, LAMBDA chat : chat.id # chat_id)
    /\ UNCHANGED <<current_process, processing_lock, fileVars, workerVars, pc, localVars,
                   stopVars, histVars, tokVars>>

\* 755-763: load the list, set the name of the first chat with the id, save
\* the list; 404 and no save when there is none
RenameChat(chat_id, new_name) ==
    /\ \E i \in 1..Len(chatsFile) :
           /\ chatsFile[i].id = chat_id
           /\ \A j \in 1..(i - 1) : chatsFile[j].id # chat_id
           /\ chatsFile' = [chatsFile EXCEPT ![i].name = new_name]
    /\ UNCHANGED <<current_process, processing_lock, fileVars, workerVars, pc, localVars,
                   stopVars, histVars, tokVars>>

\* 875-882: every file of the working directory that matches
\* temp_messages_*.pkl is removed (the output files match no pattern)
ClearAnalysisData ==
    /\ messages_file' = [r \in Req |-> FALSE]
    /\ UNCHANGED <<current_process, processing_lock, chatsFile, output_file, workerVars, pc,
                   localVars, stopVars, histVars, tokVars>>

\* one /ask, the one that continues a stored chat, /stop and the worker, with
\* the store endpoints called while that request is in flight
StoreReq == {r \in Req : ChatIdOf(r) # NoChat}

NextStore ==
    \/ \E r \in StoreReq : AskAdmitKill(r)
    \/ \E r \in StoreReq : AskAdmitClear(r)
    \/ \E r \in StoreReq : AskLoadAndWrite(r)
    \/ \E r \in StoreReq : AskSpawn(r)
    \/ \E r \in StoreReq : AskSpawnFail(r)
    \/ \E r \in StoreReq : AskWaitEval(r)
    \/ \E r \in StoreReq : AskWaitReturn(r)
    \/ \E r \in StoreReq : AskReadRc(r)
    \/ \E r \in StoreReq : AskCommEval(r)
    \/ \E r \in StoreReq : AskCommReturn(r)
    \/ \E r \in StoreReq : AskCheckOutput(r)
    \/ \E r \in StoreReq : AskCleanupFiles(r)
    \/ \E r \in StoreReq : AskClear(r)
    \/ \E r \in StoreReq : AskCheckStopped(r)
    \/ \E r \in StoreReq : AskPersist(r)
    \/ StopEnter
    \/ StopExit
    \/ \E w \in StoreReq : WorkerLoad(w)
    \/ \E w \in StoreReq : WorkerWrite(w)
    \/ \E w \in StoreReq : WorkerExit(w)
    \/ \E w \in StoreReq : WorkerCrash(w)
    \/ \E chat_id \in DeletedChats : DeleteChat(chat_id)
    \/ \E chat_id \in RenamedChats : \E new_name \in NewNames : RenameChat(chat_id, new_name)
    \/ ClearAnalysisData

SpecStore == Init /\ [][NextStore]_vars

\* Scheduling assumptions for progress: a handler that can take its next step
\* takes it (a step that has to acquire processing_lock gets the lock if it
\* is free again and again), /stop releases the lock, and a worker that is
\* not terminated runs to its end
AskProgress(r) ==
    \/ AskAdmitClear(r)
    \/ AskWaitReturn(r) \/ AskReadRc(r) \/ AskCommEval(r) \/ AskCommReturn(r)
    \/ AskCheckOutput(r) \/ AskCleanupFiles(r) \/ AskCheckStopped(r) \/ AskPersist(r)
WorkerProgress(w) == WorkerLoad(w) \/ WorkerWrite(w) \/ WorkerExit(w)
Fairness ==
    /\ \A r \in Req : WF_vars(AskProgress(r)) /\ SF_vars(AskClear(r))
    /\ WF_vars(StopExit)
    /\ \A w \in Req : WF_vars(WorkerProgress(w))

SpecFair == Spec /\ Fairness

\* ------------------------------------- TokenManager, unified_model_runner.py
\* A conversation is a list of message objects [role, text].  The lists that
\* _trim_conversation builds hold the objects of its argument, so they are
\* modelled as lists of positions in it; two objects are equal (==, list.index)
\* when role and text are equal.
Min(a, b) == IF a <= b THEN a ELSE b
Max(a, b) == IF a >= b THEN a ELSE b
Reverse(seq) == [i \in 1..Len(seq) |-> seq[Len(seq) + 1 - i]]
Deref(conv, positions) == [i \in 1..Len(positions) |-> conv[positions[i]]]
AllPositions(conv) == [i \in 1..Len(conv) |-> i]

\* 921-934: empty text counts 0, else the length of tokenizer.encode(text)
count_tokens(text) ==
    CASE text = ""      -> 0
      [] text = "short" -> ShortTokens
      [] text = "long"  -> LongTokens
      [] text = "huge"  -> HugeTokens

RECURSIVE SumTokens(_)
SumTokens(msgs) ==
    IF msgs = <<>> THEN 0 ELSE count_tokens(Head(msgs).text) + SumTokens(Tail(msgs))

\* 936-986, the "total" entry: the length of the templated token sequence, or,
\* when apply_chat_template raises, count_tokens of the concatenated texts
count_conversation_tokens(msgs) ==
    IF template_ok
    THEN PromptOverhead + Len(msgs) * TurnOverhead + SumTokens(msgs)
    ELSE SumTokens(msgs)

\* 1046-1053: the positions of the messages of one role, in order
RECURSIVE RolePositions(_, _, _)
RolePositions(conv, role, i) ==
    IF i > Len(conv) THEN <<>>
    ELSE (IF conv[i].role = role THEN <<i>> ELSE <<>>) \o RolePositions(conv, role, i + 1)

\* mutant: the system message is not carried over
Anchors_NoSystem(conv) ==
    LET users == RolePositions(conv, "user", 1)
    IN IF users # <<>> THEN <<users[Len(users)]>> ELSE <<>>

\* 1055-1062: the system message (the last one, if several) and the last user message
Anchors(conv) ==
    LET sys == RolePositions(conv, "system", 1)
        users == RolePositions(conv, "user", 1)
    IN (IF sys # <<>> THEN <<sys[Len(sys)]>> ELSE <<>>)
       \o (IF users # <<>> THEN <<users[Len(users)]>> ELSE <<>>)

\* mutant: the two reversed() calls are left out (oldest first)
RemainingMessages_OldestFirst(conv) ==
    LET users == RolePositions(conv, "user", 1)
        assistants == RolePositions(conv, "assistant", 1)
    IN (IF Len(users) > 1 THEN SubSeq(users, 1, Len(users) - 1) ELSE <<>>) \o assistants

\* 1067-1071: the earlier user messages, latest first, then the assistant
\* messages, latest first
RemainingMessages(conv) ==
    LET users == RolePositions(conv, "user", 1)
        assistants == RolePositions(conv, "assistant", 1)
    IN (IF Len(users) > 1 THEN Reverse(SubSeq(users, 1, Len(users) - 1)) ELSE <<>>)
       \o Reverse(assistants)

\* mutant: a message that does not fit is skipped and the loop goes on
RECURSIVE AdmitLoop_SkipRejected(_, _, _, _)
AdmitLoop_SkipRejected(conv, trimmed, remaining, target_input_tokens) ==
    IF remaining = <<>> THEN trimmed
    ELSE LET test_conversation == Append(trimmed, Head(remaining))
         IN IF count_conversation_tokens(Deref(conv, test_conversation)) <= target_input_tokens
            THEN AdmitLoop_SkipRejected(conv, test_conversation, Tail(remaining),
                                        target_input_tokens)
            ELSE AdmitLoop_SkipRejected(conv, trimmed, Tail(remaining), target_input_tokens)

\* mutant: the test looks at the total before the candidate is added
RECURSIVE AdmitLoop_TestBeforeAdding(_, _, _, _)
AdmitLoop_TestBeforeAdding(conv, trimmed, remaining, target_input_tokens) ==
    IF remaining = <<>> THEN trimmed
    ELSE LET test_conversation == Append(trimmed, Head(remaining))
         IN IF count_conversation_tokens(Deref(conv, trimmed)) <= target_input_tokens
            THEN AdmitLoop_TestBeforeAdding(conv, test_conversation, Tail(remaining),
                                            target_input_tokens)
            ELSE trimmed

\* 1073-1082: append while the measured total stays within the target, stop
\* at the first message that does not fit
RECURSIVE AdmitLoop(_, _, _, _)
AdmitLoop(conv, trimmed, remaining, target_input_tokens) ==
    IF remaining = <<>> THEN trimmed
    ELSE LET test_conversation == Append(trimmed, Head(remaining))
         IN IF count_conversation_tokens(Deref(conv, test_conversation)) <= target_input_tokens
            THEN AdmitLoop(conv, test_conversation, Tail(remaining), target_input_tokens)
            ELSE trimmed

\* conversation.index(x): the first position holding an equal message
IndexOf(conv, p) == CHOOSE i \in 1..Len(conv) :
                        /\ conv[i] = conv[p]
                        /\ \A j \in 1..(i - 1) : conv[j] # conv[p]

\* sorted(list, key=lambda x: conversation.index(x)): stable, ascending
RECURSIVE SortedByIndex(_, _)
SortedByIndex(conv, list) ==
    IF list = <<>> THEN <<>>
    ELSE LET n == Len(list)
             front == SortedByIndex(conv, SubSeq(list, 1, n - 1))
             key == IndexOf(conv, list[n])
             before == SelectSeq(front, LAMBDA q : IndexOf(conv, q) <= key)
             after == SelectSeq(front, LAMBDA q : IndexOf(conv, q) > key)
         IN before \o <<list[n]>> \o after

\* 1037-1095
trim_conversation(conv, min_output_tokens) ==
    LET target_input_tokens == EFFECTIVE_CONTEXT - min_output_tokens
        has_system == RolePositions(conv, "system", 1) # <<>>
        trimmed == AdmitLoop(conv, Anchors(conv), RemainingMessages(conv),
                             target_input_tokens)
    IN IF has_system
       THEN <<Head(trimmed)>> \o SortedByIndex(conv, Tail(trimmed))
       ELSE SortedByIndex(conv, trimmed)

\* mutant: the last branch grants what is left without the floor of 512
optimize_for_context_NoFloor(conv, target) ==
    LET current_tokens == count_conversation_tokens(conv)
        available_for_output == EFFECTIVE_CONTEXT - current_tokens
    IN IF available_for_output >= target
       THEN [conv |-> AllPositions(conv), granted |-> Min(target, available_for_output)]
       ELSE IF current_tokens >= EFFECTIVE_CONTEXT
       THEN LET optimized_conversation == trim_conversation(conv, target)
                new_total == count_conversation_tokens(Deref(conv, optimized_conversation))
            IN [conv |-> optimized_conversation,
                granted |-> Max(MinOutputTokens, EFFECTIVE_CONTEXT - new_total)]
       ELSE [conv |-> AllPositions(conv), granted |-> available_for_output]

\* mutant: the conversation is trimmed whenever the target does not fit
optimize_for_context_TrimEarly(conv, target) ==
    LET current_tokens == count_conversation_tokens(conv)
        available_for_output == EFFECTIVE_CONTEXT - current_tokens
    IN IF available_for_output >= target
       THEN [conv |-> AllPositions(conv), granted |-> Min(target, available_for_output)]
       ELSE LET optimized_conversation == trim_conversation(conv, target)
                new_total == count_conversation_tokens(Deref(conv, optimized_conversation))
            IN [conv |-> optimized_conversation,
                granted |-> Max(MinOutputTokens, EFFECTIVE_CONTEXT - new_total)]

\* mutant: the first branch grants all that is left instead of the target
optimize_for_context_GrantAvailable(conv, target) ==
    LET current_tokens == count_conversation_tokens(conv)
        available_for_output == EFFECTIVE_CONTEXT - current_tokens
    IN IF available_for_output >= target
       THEN [conv |-> AllPositions(conv), granted |-> available_for_output]
       ELSE IF current_tokens >= EFFECTIVE_CONTEXT
       THEN LET optimized_conversation == trim_conversation(conv, target)
                new_total == count_conversation_tokens(Deref(conv, optimized_conversation))
            IN [conv |-> optimized_conversation,
                granted |-> Max(MinOutputTokens, EFFECTIVE_CONTEXT - new_total)]
       ELSE [conv |-> AllPositions(conv),
             granted |-> Max(MinOutputTokens, available_for_output)]

\* mutant: a conversation that fits is granted the target whatever is left
optimize_for_context_GrantTarget(conv, target) ==
    LET current_tokens == count_conversation_tokens(conv)
        available_for_output == EFFECTIVE_CONTEXT - current_tokens
    IN IF available_for_output >= target
       THEN [conv |-> AllPositions(conv), granted |-> Min(target, available_for_output)]
       ELSE IF current_tokens >= EFFECTIVE_CONTEXT
       THEN LET optimized_conversation == trim_conversation(conv, target)
                new_total == count_conversation_tokens(Deref(conv, optimized_conversation))
            IN [conv |-> optimized_conversation,
                granted |-> Max(MinOutputTokens, EFFECTIVE_CONTEXT - new_total)]
       ELSE [conv |-> AllPositions(conv), granted |-> Max(MinOutputTokens, target)]

\* 1012-1035: the returned conversation (as positions) and the granted output
optimize_for_context(conv, target) ==
    LET current_tokens == count_conversation_tokens(conv)
        available_for_output == EFFECTIVE_CONTEXT - current_tokens
    IN IF available_for_output >= target
       THEN [conv |-> AllPositions(conv), granted |-> Min(target, available_for_output)]
       ELSE IF current_tokens >= EFFECTIVE_CONTEXT
       THEN LET optimized_conversation == trim_conversation(conv, target)
                new_total == count_conversation_tokens(Deref(conv, optimized_conversation))
            IN [conv |-> optimized_conversation,
                granted |-> Max(MinOutputTokens, EFFECTIVE_CONTEXT - new_total)]
       ELSE [conv |-> AllPositions(conv),
             granted |-> Max(MinOutputTokens, available_for_output)]

\* the conversations the server hands over (server.py:461-532): a system
\* message of at most 2000 characters, the stored turns, the new user message
PriorMessages == [role : {"user", "assistant"}, text : {"short", "long"}]
Conversations ==
    {sys \o prior \o <<[role |-> "user", text |-> last]>> :
        sys \in {<<>>, <<[role |-> "system", text |-> "short"]>>},
        prior \in UNION {[1..n -> PriorMessages] : n \in 0..MaxPrior},
        last \in {"short", "long", "huge"}}

InitTok ==
    /\ SrvInit
    /\ conversation \in Conversations
    /\ target_output_tokens \in MaxNewTokens
    /\ template_ok \in BOOLEAN
    /\ optimized = [done |-> FALSE, conv |-> <<>>, granted |-> 0]
    /\ genPc = "optimize"
    /\ inputs = <<>>
    /\ actual_output_tokens = 0
    /\ templateFailures = 0
    /\ PklIdle

\* _generate_response, 1452-1455: the call of optimize_for_context
Optimize ==
    /\ genPc = "optimize"
    /\ ~optimized.done
    /\ LET result == optimize_for_context(conversation, target_output_tokens)
       IN /\ optimized' = [done |-> TRUE, conv |-> result.conv, granted |-> result.granted]
          /\ actual_output_tokens' = result.granted
    /\ genPc' = "template"
    /\ UNCHANGED <<srvVars, conversation, target_output_tokens, template_ok, inputs,
                   templateFailures, pklVars>>

\* mutant: the retry uses the budgeted conversation once more
MinimalConversation_KeepAll(conv, positions) == positions

\* 1478-1492: of the budgeted conversation, the system message and the user
\* message that come last in it, the system message first
MinimalConversation(conv, positions) ==
    LET system_msg == SelectSeq(positions, LAMBDA p : conv[p].role = "system")
        user_msg == SelectSeq(positions, LAMBDA p : conv[p].role = "user")
    IN (IF system_msg # <<>> THEN <<system_msg[Len(system_msg)]>> ELSE <<>>)
       \o (IF user_msg # <<>> THEN <<user_msg[Len(user_msg)]>> ELSE <<>>)

\* 1466-1476: processor.apply_chat_template(optimized_conversation) returns
\* the inputs or raises; 1477-1478, 1507-1508: on an exception a conversation
\* of more than two messages goes to the retry, a shorter one re-raises
ApplyChatTemplate ==
    /\ genPc = "template"
    /\ \E ok \in BOOLEAN :
           IF ok
           THEN /\ inputs' = optimized.conv
                /\ genPc' = "generate"
                /\ UNCHANGED templateFailures
           ELSE /\ templateFailures' = 1
                /\ genPc' = IF Len(optimized.conv) > 2 THEN "retry" ELSE "raised"
                /\ UNCHANGED inputs
    /\ UNCHANGED <<srvVars, conversation, target_output_tokens, template_ok, optimized,
                   actual_output_tokens, pklVars>>

\* 1494-1506: apply_chat_template(minimal_conversation); when it returns, the
\* output budget is computed again for the minimal conversation; when it
\* raises, the exception leaves _generate_response
RetryMinimal ==
    /\ genPc = "retry"
    /\ LET minimal_conversation == MinimalConversation(conversation, optimized.conv)
       IN \E ok \in BOOLEAN :
              IF ok
              THEN /\ inputs' = minimal_conversation
                   /\ actual_output_tokens' =
                          optimize_for_context(Deref(conversation, minimal_conversation),
                                               target_output_tokens).granted
                   /\ genPc' = "generate"
                   /\ UNCHANGED templateFailures
              ELSE /\ templateFailures' = 2
                   /\ genPc' = "raised"
                   /\ UNCHANGED <<inputs, actual_output_tokens>>
    /\ UNCHANGED <<srvVars, conversation, target_output_tokens, template_ok, optimized,
                   pklVars>>

NextTok ==
    \/ Optimize
    \/ ApplyChatTemplate
    \/ RetryMinimal

SpecTok == InitTok /\ [][NextTok]_vars

\* ----------------------------------------------- hand-off of the messages
\* pickle.dump(messages, f) at server.py:543-544 and pickle.load(f) at
\* unified_model_runner.py:1626-1627.  The stream is a sequence of opcodes for
\* the unpickler's stack machine (protocol 4, framing left out).  A str that
\* was saved before is fetched from the memo; strings equal as values are
\* taken to be one object, as the literals "role", "content", "type" are.
Op(name, arg, n) == [op |-> name, arg |-> arg, n |-> n]
Emit(st, ops) == [st EXCEPT !.ops = @ \o ops]
\* MEMOIZE: the object on top of the stack gets the next memo index
Memoize(st, entry) == [ops |-> Append(st.ops, Op("MEMOIZE", "", 0)),
                       memo |-> Append(st.memo, entry)]
MemoIndex(st, x) == {i \in 1..Len(st.memo) : st.memo[i].k = "str" /\ st.memo[i].v = x}

RECURSIVE save(_, _)
RECURSIVE SaveAll(_, _)
RECURSIVE SaveAllPairs(_, _)

\* the stream is written front to back: each save has written its opcodes
\* (at least one) before the next one starts
Written(st) == Len(st.ops)

\* mutant: the items of a list are written last to first
SaveAll_Reversed(items, st) ==
    IF items = <<>> THEN st
    ELSE LET st1 == save(items[Len(items)], st)
         IN IF Written(st1) > Written(st)
            THEN SaveAll(SubSeq(items, 1, Len(items) - 1), st1)
            ELSE st1

\* the items of a list, first to last
SaveAll(items, st) ==
    IF items = <<>> THEN st
    ELSE LET st1 == save(Head(items), st)
         IN IF Written(st1) > Written(st) THEN SaveAll(Tail(items), st1) ELSE st1

\* the keys and values of a dict, in insertion order
SaveAllPairs(pairs, st) ==
    IF pairs = <<>> THEN st
    ELSE LET st1 == save(Head(pairs)[1], st)
             st2 == save(Head(pairs)[2], st1)
         IN IF Written(st1) > Written(st) /\ Written(st2) > Written(st1)
            THEN SaveAllPairs(Tail(pairs), st2)
            ELSE st2

\* _batch_appends: one item is added with APPEND, several with MARK ... APPENDS
batch_appends(items, st) ==
    CASE Len(items) = 0 -> st
      [] Len(items) = 1 -> Emit(save(items[1], st), <<Op("APPEND", "", 0)>>)
      [] OTHER -> Emit(SaveAll(items, Emit(st, <<Op("MARK", "", 0)>>)),
                       <<Op("APPENDS", "", 0)>>)

\* _batch_setitems: one pair is added with SETITEM, several with MARK ... SETITEMS
batch_setitems(pairs, st) ==
    CASE Len(pairs) = 0 -> st
      [] Len(pairs) = 1 -> Emit(SaveAllPairs(pairs, st), <<Op("SETITEM", "", 0)>>)
      [] OTHER -> Emit(SaveAllPairs(pairs, Emit(st, <<Op("MARK", "", 0)>>)),
                       <<Op("SETITEMS", "", 0)>>)

\* Pickler.save: a PIL image is written by its class, NEWOBJ, and its state
\* (mode, size and pixel data, here one string), which BUILD puts back
save(obj, st) ==
    CASE obj.k = "str" ->
            IF MemoIndex(st, obj.v) # {}
            THEN Emit(st, <<Op("BINGET", "", CHOOSE i \in MemoIndex(st, obj.v) : TRUE)>>)
            ELSE Memoize(Emit(st, <<Op("BINUNICODE", obj.v, 0)>>), obj)
      [] obj.k = "bytes" ->
            Memoize(Emit(st, <<Op("BINBYTES", obj.v, 0)>>), [k |-> "other", v |-> ""])
      [] obj.k = "image" ->
            Emit(Memoize(Emit(Memoize(Emit(st, <<Op("GLOBAL", "PIL.Image.Image", 0),
                                                  Op("EMPTY_TUPLE", "", 0),
                                                  Op("NEWOBJ", "", 0)>>),
                                      [k |-> "other", v |-> ""]),
                              <<Op("BINBYTES", obj.v, 0)>>),
                         [k |-> "other", v |-> ""]),
                 <<Op("BUILD", "", 0)>>)
      [] obj.k = "list" ->
            batch_appends(obj.v, Memoize(Emit(st, <<Op("EMPTY_LIST", "", 0)>>),
                                         [k |-> "other", v |-> ""]))
      [] obj.k = "dict" ->
            batch_setitems(obj.v, Memoize(Emit(st, <<Op("EMPTY_DICT", "", 0)>>),
                                          [k |-> "other", v |-> ""]))

\* pickle.dump: PROTO, the object, STOP
pickle_dump(obj) ==
    <<Op("PROTO", "", 4)>> \o save(obj, [ops |-> <<>>, memo |-> <<>>]).ops
        \o <<Op("STOP", "", 0)>>

\* ---- the unpickler: a stack and a memo
Push(m, x) == [m EXCEPT !.stack = Append(@, x)]
Top(m) == m.stack[Len(m.stack)]
\* the stack without its n topmost entries
Pop(m, n) == SubSeq(m.stack, 1, Len(m.stack) - n)
\* the position of the topmost MARK
TopMark(m) == CHOOSE i \in 1..Len(m.stack) :
                  /\ m.stack[i].k = "mark"
                  /\ \A j \in (i + 1)..Len(m.stack) : m.stack[j].k # "mark"
AboveMark(m) == SubSeq(m.stack, TopMark(m) + 1, Len(m.stack))

\* dict[key] = value: the value of an existing key is replaced in place, a new
\* key goes to the end
SetItem(pairs, key, value) ==
    IF \E i \in 1..Len(pairs) : pairs[i][1] = key
    THEN [i \in 1..Len(pairs) |-> IF pairs[i][1] = key THEN <<key, value>> ELSE pairs[i]]
    ELSE Append(pairs, <<key, value>>)

RECURSIVE SetItems(_, _)
SetItems(pairs, flat) ==
    IF flat = <<>> THEN pairs
    ELSE SetItems(SetItem(pairs, flat[1], flat[2]), SubSeq(flat, 3, Len(flat)))

\* one opcode of Unpickler.load
Dispatch(m, o) ==
    CASE o.op = "PROTO"       -> m
      [] o.op = "BINUNICODE"  -> Push(m, Str(o.arg))
      [] o.op = "BINBYTES"    -> Push(m, Bytes(o.arg))
      [] o.op = "MEMOIZE"     -> [m EXCEPT !.memo = Append(@, Top(m))]
      [] o.op = "BINGET"      -> Push(m, m.memo[o.n])
      [] o.op = "EMPTY_LIST"  -> Push(m, List(<<>>))
      [] o.op = "EMPTY_DICT"  -> Push(m, Dict(<<>>))
      [] o.op = "EMPTY_TUPLE" -> Push(m, [k |-> "tuple", v |-> ""])
      [] o.op = "GLOBAL"      -> Push(m, [k |-> "class", v |-> o.arg])
      [] o.op = "MARK"        -> Push(m, [k |-> "mark", v |-> ""])
      [] o.op = "NEWOBJ"      -> [m EXCEPT !.stack = Append(Pop(m, 2), Img(""))]
      [] o.op = "BUILD"       ->
            LET state == Top(m)
                inst == m.stack[Len(m.stack) - 1]
            IN [m EXCEPT !.stack = Append(Pop(m, 2), [inst EXCEPT !.v = state.v])]
      [] o.op = "APPEND"      ->
            LET list == m.stack[Len(m.stack) - 1]
            IN [m EXCEPT !.stack = Append(Pop(m, 2), List(Append(list.v, Top(m))))]
      [] o.op = "APPENDS"     ->
            LET list == m.stack[TopMark(m) - 1]
            IN [m EXCEPT !.stack = Append(SubSeq(m.stack, 1, TopMark(m) - 2),
                                          List(list.v \o AboveMark(m)))]
      [] o.op = "SETITEM"     ->
            LET dict == m.stack[Len(m.stack) - 2]
            IN [m EXCEPT !.stack =
                    Append(Pop(m, 3),
                           Dict(SetItem(dict.v, m.stack[Len(m.stack) - 1], Top(m))))]
      [] o.op = "SETITEMS"    ->
            LET dict == m.stack[TopMark(m) - 1]
            IN [m EXCEPT !.stack = Append(SubSeq(m.stack, 1, TopMark(m) - 2),
                                          Dict(SetItems(dict.v, AboveMark(m))))]

\* dispatch of one opcode; ip counts the opcodes read
Step(m, o) == [Dispatch(m, o) EXCEPT !.ip = @ + 1]

\* the opcodes lo..hi are dispatched in order: those up to the middle have
\* been read (ip stands at mid) before the rest is
RECURSIVE RunRange(_, _, _, _)
RunRange(ops, lo, hi, m) ==
    IF lo > hi THEN m
    ELSE IF lo = hi THEN Step(m, ops[lo])
    ELSE LET mid == (lo + hi) \div 2
             half == RunRange(ops, lo, mid, m)
         IN IF half.ip = mid THEN RunRange(ops, mid + 1, hi, half) ELSE half

\* pickle.load: the opcodes before the first STOP are dispatched, the result
\* is what is then on top of the stack
pickle_load(ops) ==
    LET stop == CHOOSE i \in 1..Len(ops) :
                    /\ ops[i].op = "STOP"
                    /\ \A j \in 1..(i - 1) : ops[j].op # "STOP"
    IN Top(RunRange(ops, 1, stop - 1, [stack |-> <<>>, memo |-> <<>>, ip |-> 0]))

\* ---- the messages /ask builds (server.py:461-532)
TextPart(x) == Dict(<< <<Str("type"), Str("text")>>, <<Str("text"), Str(x)>> >>)
ImagePart(x) == Dict(<< <<Str("type"), Str("image")>>, <<Str("image"), Img(x)>> >>)
AudioPart(x) == Dict(<< <<Str("type"), Str("audio")>>, <<Str("audio"), Bytes(x)>> >>)
Message(role, parts) == Dict(<< <<Str("role"), Str(role)>>, <<Str("content"), List(parts)>> >>)
\* texts, and the data of an uploaded file
Texts == {"hello", "role"}
\* how the parts of the new user message come about (491-527): nothing but
\* the text, an image, an audio file with its transcript, a document
UserContents ==
    {<<>>} \cup {<<TextPart(t)>> : t \in Texts}
           \cup {<<ImagePart("px")>>}
           \cup {<<ImagePart("px"), TextPart(t)>> : t \in Texts}
           \cup {<<AudioPart("wav"), TextPart(u), TextPart(t)>> : u \in Texts, t \in Texts}
\* the stored turns of the chat that is continued (468-489)
Histories ==
    {<<>>} \cup {<<Message("user", <<TextPart(q)>>), Message("assistant", <<TextPart(a)>>)>> :
                     q \in Texts, a \in Texts}
                \cup {<<Message("user", <<TextPart(q), TextPart("[Image was provided]")>>)>> :
                     q \in Texts}

InitHandOff ==
    /\ SrvInit
    /\ TokIdle
    /\ \E sys \in Texts, history \in Histories, content \in UserContents :
           messages = List(<<Message("system", <<TextPart(sys)>>)>> \o history
                           \o <<Message("user", content)>>)
    /\ pkl = <<>>
    /\ loaded = NotLoaded

\* server.py:543-544
Dump ==
    /\ pkl = <<>>
    /\ pkl' = pickle_dump(messages)
    /\ UNCHANGED <<srvVars, conversation, target_output_tokens, template_ok, optimized,
                   genPc, inputs, actual_output_tokens, templateFailures, messages, loaded>>

\* unified_model_runner.py:1626-1627
Load ==
    /\ pkl # <<>>
    /\ loaded.k = "unset"
    /\ loaded' = pickle_load(pkl)
    /\ UNCHANGED <<srvVars, conversation, target_output_tokens, template_ok, optimized,
                   genPc, inputs, actual_output_tokens, templateFailures, messages, pkl>>

NextHandOff == Dump \/ Load

SpecHandOff == InitHandOff /\ [][NextHandOff]_vars

\* =================================================================== claims
AliveWorkers == {w \in Req : Alive(w)}

\* the turn of request r is in chats.json
Persisted(r) ==
    \E i \in 1..Len(chatsFile) : \E k \in 1..Len(chatsFile[i].conv) : chatsFile[i].conv[k] = r

C2_TerminatedBeforeSpawn ==
    \A b \in Req : (sawAlive[b] # None /\ wstage[b] # "unborn") => ~Alive(sawAlive[b])

\* C2 witness: B has just spawned its worker after meeting A's live worker
C2_Witness ==
    \E b \in Req : sawAlive[b] # None /\ pc[b] = "wait_eval" /\ wstage[b] = "init"

C5_NoHandOffFilesAfterReturn ==
    \A r \in Req : pc[r] = "done" => (~messages_file[r] /\ output_file[r] = "none")

\* C6: /stop called while no registered worker is running leaves the
\* current-worker slot, the worker processes, the hand-off files and the store
\* unchanged, from taking the lock to returning; this holds of every such call.
StopFrame == UNCHANGED <<current_process, wstage, returncode, messages_file, output_file,
                         chatsFile>>
C6_IdleCancelIsNoop ==
    [][/\ (stopPc = "idle" /\ stopPc' # "idle"
            /\ (current_process = None \/ ~Alive(current_process)))
           => (stopPc' = "noop" /\ StopFrame)
       /\ (stopPc = "noop" /\ stopPc' = "idle")
           => (StopFrame /\ processing_lock' = None)]_vars

\* C6 witness: /stop holds the lock with nothing to terminate
C6_Witness == stopPc = "noop" /\ AliveWorkers = {}

\* C7: every request returns one structured result (a reply, the cancellation
\* notice or a structured error) and no exception escapes the handler.
StructuredResults ==
    {"reply", "stopped", "model_error", "no_output", "process_error", "server_error"}
C7_OneStructuredResult ==
    \A r \in Req : IF pc[r] = "done" THEN ret[r] \in StructuredResults ELSE ret[r] = "none"

\* ---- TokenManager claims (SpecTok)
ConversationTotal == count_conversation_tokens(conversation)
Kept == {optimized.conv[i] : i \in 1..Len(optimized.conv)}
\* optimize_for_context took its trimming branch
TrimCase == optimized.done /\ ConversationTotal >= EFFECTIVE_CONTEXT
\* the system message and the latest user message
IsAnchor(p) ==
    \/ conversation[p].role = "system"
    \/ /\ conversation[p].role = "user"
       /\ \A q \in (p + 1)..Len(conversation) : conversation[q].role # "user"
PriorPositions == {p \in 1..Len(conversation) : ~IsAnchor(p)}

C9_BudgetConservation ==
    (optimized.done /\ ConversationTotal <= EFFECTIVE_CONTEXT - MinOutputTokens)
        => /\ optimized.conv = AllPositions(conversation)
           /\ optimized.granted
                  = Min(target_output_tokens, EFFECTIVE_CONTEXT - ConversationTotal)

\* C9 witness: the target does not fit and the grant is what is left
C9_Witness ==
    /\ optimized.done
    /\ ConversationTotal <= EFFECTIVE_CONTEXT - MinOutputTokens
    /\ optimized.granted < target_output_tokens
    /\ optimized.granted > MinOutputTokens

OfferedBefore(i, j) ==
    \/ conversation[i].role = "user" /\ conversation[j].role = "assistant"
    \/ conversation[i].role = conversation[j].role /\ i > j

C7_Witness ==
    \E r, q \in Req : /\ ret[r] = "server_error" /\ wstage[r] = "exited"
                      /\ ret[q] = "reply"

\* ---- TokenManager claims, continued (SpecTok)
\* the positions of S in the order of the input
InOriginalOrder(S) == SelectSeq(AllPositions(conversation), LAMBDA p : p \in S)
\* the input budget of the trimming branch
TrimBudget == EFFECTIVE_CONTEXT - target_output_tokens
\* the measured total of the retained messages with message j appended
TotalWith(j) == count_conversation_tokens(Deref(conversation, Append(optimized.conv, j)))

\* C16: optimize_for_context follows the reference policy: with current the
\* counted total and available = EFFECTIVE_CONTEXT - current, it returns the
\* conversation unchanged and the desired count if available >= desired;
\* otherwise the trimmed conversation and max(512, EFFECTIVE_CONTEXT - newTotal)
\* if current >= EFFECTIVE_CONTEXT; otherwise the conversation unchanged and
\* max(512, available).
C16_ReferencePolicy ==
    optimized.done =>
        LET available == EFFECTIVE_CONTEXT - ConversationTotal
            trimmed == trim_conversation(conversation, target_output_tokens)
            newTotal == count_conversation_tokens(Deref(conversation, trimmed))
        IN CASE available >= target_output_tokens ->
                    /\ optimized.conv = AllPositions(conversation)
                    /\ optimized.granted = target_output_tokens
             [] available < target_output_tokens /\ ConversationTotal >= EFFECTIVE_CONTEXT ->
                    /\ optimized.conv = trimmed
                    /\ optimized.granted = Max(MinOutputTokens, EFFECTIVE_CONTEXT - newTotal)
             [] OTHER ->
                    /\ optimized.conv = AllPositions(conversation)
                    /\ optimized.granted = Max(MinOutputTokens, available)

\* C16 witness: the first branch, the whole target is granted with room to spare
C16_Witness ==
    /\ optimized.done
    /\ EFFECTIVE_CONTEXT - ConversationTotal > target_output_tokens
    /\ optimized.granted = target_output_tokens
    /\ Len(conversation) > 2

\* C17: trimming stops for good at the first candidate that does not fit: no
\* candidate offered after a rejected one is retained, even one that would fit.
C17_StopsAtFirstRejection ==
    TrimCase =>
        \A i, j \in PriorPositions : (OfferedBefore(i, j) /\ i \notin Kept) => j \notin Kept

\* C17 witness: a candidate offered after the rejected one would have fitted
\* and was dropped all the same
C17_Witness ==
    /\ TrimCase
    /\ \E i, j \in PriorPositions :
           /\ OfferedBefore(i, j) /\ i \notin Kept /\ j \notin Kept
           /\ TotalWith(i) > TrimBudget
           /\ TotalWith(j) <= TrimBudget

\* C18: for every input conversation, one with two equal messages included,
\* the result of trimming lists the retained messages in the order of their
\* positions in the input, the system message first.
C18_OriginalOrder ==
    TrimCase =>
        Deref(conversation, optimized.conv) = Deref(conversation, InOriginalOrder(Kept))

\* C19: the result of trimming holds the system message, if there is one, and
\* the latest user message, whatever their token counts and the budget.
C19_AnchorsRetained ==
    TrimCase =>
        \A p \in 1..Len(conversation) :
            IsAnchor(p) => \E k \in 1..Len(optimized.conv) : optimized.conv[k] = p

\* C19 witness: the anchors alone exceed the input budget and are all that is kept
C19_Witness ==
    /\ TrimCase
    /\ \E p \in 1..Len(conversation) : conversation[p].role = "system"
    /\ count_conversation_tokens(Deref(conversation, optimized.conv)) > TrimBudget
    /\ Kept = {p \in 1..Len(conversation) : IsAnchor(p)}

\* the measured total of the conversation optimize_for_context returned
ReturnedTotal == count_conversation_tokens(Deref(conversation, optimized.conv))
\* the measured total of the anchors alone
AnchorsTotal ==
    count_conversation_tokens(Deref(conversation, Anchors(conversation)))

\* C26: whenever optimize_for_context grants more than 512 output tokens, the
\* measured total of the returned conversation plus the grant is at most
\* EFFECTIVE_CONTEXT: the context can be overrun only with a grant of 512.
C26_OverrunOnlyAtFloor ==
    (optimized.done /\ optimized.granted > MinOutputTokens)
        => ReturnedTotal + optimized.granted <= EFFECTIVE_CONTEXT

\* C26 witness: a trimmed conversation that is granted more than the floor
\* and, together with the grant, fills the context exactly
C26_Witness ==
    /\ TrimCase
    /\ optimized.granted > MinOutputTokens
    /\ Len(optimized.conv) < Len(conversation)
    /\ ReturnedTotal + optimized.granted = EFFECTIVE_CONTEXT

\* C27: when the system message and the latest user message together measure
\* at most EFFECTIVE_CONTEXT - minOutputTokens, the measured total of the
\* messages admitted by trimming is at most EFFECTIVE_CONTEXT - minOutputTokens.
C27_AdmittedWithinBudget ==
    (TrimCase /\ AnchorsTotal <= TrimBudget) => ReturnedTotal <= TrimBudget

\* C27 witness: the anchors fit, a prior message was admitted, and the prior
\* message rejected after it would have taken the total over the budget
C27_Witness ==
    /\ TrimCase
    /\ AnchorsTotal <= TrimBudget
    /\ \E i, j \in PriorPositions :
           /\ i \in Kept /\ j \notin Kept
           /\ TotalWith(j) > TrimBudget

\* ---- _generate_response claims (SpecTok)
\* the user message that comes last in the budgeted conversation
LastUserOfBudgeted ==
    LET ks == {k \in 1..Len(optimized.conv) : conversation[optimized.conv[k]].role = "user"}
    IN optimized.conv[CHOOSE k \in ks : \A m \in ks : m <= k]
\* the system message of the budgeted conversation, if any, then that user message
MinimalOfBudgeted ==
    SelectSeq(optimized.conv, LAMBDA p : conversation[p].role = "system")
        \o <<LastUserOfBudgeted>>
\* the output budget computed for the minimal conversation
BudgetOfMinimal ==
    optimize_for_context(Deref(conversation, MinimalOfBudgeted), target_output_tokens).granted

BeforeOutputRead == {"wait_eval", "waiting", "read_rc", "comm_eval", "comm_wait", "check_output"}
\* the blocking calls wait() and communicate()
BlockedInWait == {"waiting", "comm_wait"}
InFlight(r) == pc[r] \notin {"idle", "done"}

C14_CancelLeavesNoWorker ==
    [][/\ (stopPc = "idle" /\ stopPc' # "idle"
            /\ current_process # None /\ Alive(current_process))
           => /\ stopPc' = "kill"
              /\ current_process' = current_process
              /\ wstage'[current_process] = "exited"
       /\ (stopPc = "kill" /\ stopPc' = "kill")
           => /\ current_process' = current_process
              /\ wstage'[current_process] = "exited"
       /\ (stopPc = "kill" /\ stopPc' = "idle")
           => /\ current_process' = None
              /\ wstage'[current_process] = "exited"]_vars

\* C14 witness: /stop has returned after terminating the worker of a request
\* that is still in wait()
C14_Witness ==
    \E w \in Req : /\ killedBy[w] = "stop" /\ pc[w] = "waiting" /\ waitOn[w] = w
                   /\ stopPc = "idle" /\ current_process = None

\* C15: whenever a request has returned and no request is in flight,
\* current_process is None.
C15_SlotEmptyWhenIdle ==
    ((\E r \in Req : pc[r] = "done") /\ (\A q \in Req : ~InFlight(q)))
        => current_process = None

\* C15 witness: every request has returned, one of them on the spawn failure
\* path, which does not reach the finally block
C15_Witness ==
    /\ \A q \in Req : pc[q] = "done"
    /\ \E r, q \in Req : /\ ret[r] = "server_error" /\ wstage[r] = "unborn"
                         /\ wstage[q] = "exited"

\* ---- server claims: error paths, the store, the slot (Spec)
\* the worker of r has exited and never dumped a payload to its output file
ExitedWithoutOutput(r) == wstage[r] = "exited" /\ ~wroteOutput[r]
ErrorOutcomes == {"model_error", "no_output", "process_error", "server_error"}

C23_PromotedToFront ==
    [][\A r \in Req :
           (ret[r] = "none" /\ ret'[r] = "reply")
               => /\ Len(chatsFile') >= 1
                  /\ chatsFile'[1].id = ChatOf(r)
                  /\ Cardinality({i \in 1..Len(chatsFile') : chatsFile'[i].id = ChatOf(r)}) = 1
                  /\ chatsFile'[1].conv[Len(chatsFile'[1].conv)] = r]_vars

\* C23 witness: the stored chat that was second in the list is first after
\* the reply, with the old turn and the new one
C23_Witness ==
    \E r \in Req : /\ ret[r] = "reply"
                   /\ ChatOf(r) = StoredChats[2].id
                   /\ chatsFile[1] = [StoredChats[2] EXCEPT !.conv = Append(@, r)]
                   /\ Len(chatsFile) = Len(StoredChats)

C28_NoLostUpdate ==
    [][\A r \in Req :
           (ret[r] = "none" /\ ret'[r] = "reply")
               => chatsFile' = PersistTurn(chatsFile, ChatOf(r), r)]_vars

=============================================================================
